---- MODULE Spec2Model ----
(***************************************************************************)
(* Celestial lighting controller (appdaemon/apps/celestial.py).            *)
(*                                                                         *)
(* Units used for the program's floating-point quantities:                 *)
(*   azimuth      steps of 2.5 degrees (144 steps per turn, 72 = 180 deg)  *)
(*   alignment    millionths (1000000 = 1.0)                               *)
(*   dimmer_level thousandths (1000 = 1.0, one 5% click = 50)              *)
(*   elevation, altitude   whole degrees                                   *)
(*   phase, humidity, cloud cover   whole percent                          *)
(* The integer formulas below were compared with the Python float          *)
(* arithmetic on these grids; where float truncation lands one below the   *)
(* exact quotient the case is listed in a table (FloatShort...).           *)
(***************************************************************************)
EXTENDS Integers, Sequences, FiniteSets, TLC

VARIABLES
    light_directions,   \* self.light_directions: entity -> azimuth, in insertion order
    lighting_mode,      \* self.lighting_mode
    dimmer_level,       \* self.dimmer_level
    manual_override,    \* self.manual_override
    lights,             \* platform state store: state and attributes of every entity
    calls,              \* service calls issued by the handler that ran last, in order
    ev,                 \* the handler that ran last and the values it read
    pre,                \* controller state and light states when that handler began
    press_hist,         \* lighting_mode before each of the last three presses
    probe,              \* inputs and result of a function evaluated on its own
    fault_count,        \* failed reads and raising calls met so far
    app                 \* what initialize was given and what it registered

vars == <<light_directions, lighting_mode, dimmer_level, manual_override,
          lights, calls, ev, pre, press_hist, probe, fault_count, app>>

\* Largest number of entries of directional_lights considered.
MaxFixtures == 3

Max(a, b) == IF a >= b THEN a ELSE b
Min(a, b) == IF a <= b THEN a ELSE b
Abs(a) == IF a >= 0 THEN a ELSE -a

--------------------------------------------------------------------------
(* Configuration *)

\* direction_map of direction_to_azimuth, azimuths in steps of 2.5 degrees.
direction_map ==
    [d \in {"N", "NNE", "NE", "ENE", "E", "ESE", "SE", "SSE", "S", "SSW", "SW",
            "WSW", "W", "WNW", "NW", "NNW", "NORTH", "EAST", "SOUTH", "WEST"} |->
        CASE d = "N" -> 0      [] d = "NNE" -> 9    [] d = "NE" -> 18
          [] d = "ENE" -> 27   [] d = "E" -> 36     [] d = "ESE" -> 45
          [] d = "SE" -> 54    [] d = "SSE" -> 63   [] d = "S" -> 72
          [] d = "SSW" -> 81   [] d = "SW" -> 90    [] d = "WSW" -> 99
          [] d = "W" -> 108    [] d = "WNW" -> 117  [] d = "NW" -> 126
          [] d = "NNW" -> 135  [] d = "NORTH" -> 0  [] d = "EAST" -> 36
          [] d = "SOUTH" -> 72 [] d = "WEST" -> 108]

\* direction_map.get(direction): <<azimuth>>, or <<>> for None.
direction_to_azimuth(direction) ==
    IF direction \in DOMAIN direction_map THEN <<direction_map[direction]>> ELSE <<>>

\* The loop of initialize over directional_lights: entries whose label has no
\* azimuth are skipped, the others are appended in configuration order.
RECURSIVE ParseDirections(_)
ParseDirections(labels) ==
    IF labels = <<>> THEN <<>>
    ELSE LET az == direction_to_azimuth(Head(labels))
         IN  az \o ParseDirections(Tail(labels))

\* directional_lights: one label per entity, in configuration order.  "UP" is
\* a label direction_map does not know.
ConfigChoices ==
    { <<"S">>,
      <<"N", "UP", "S">>,
      <<"NNE", "N", "N">>,
      <<"N", "NNW", "NNE">>,
      <<"NORTH", "E", "S", "W">>,
      <<"N", "NNE", "NNW", "N">>,
      <<"N", "NNE", "E", "S", "NNW">> }

Configs == {c \in ConfigChoices : Len(c) <= MaxFixtures}

Entities == 1..Len(light_directions)

--------------------------------------------------------------------------
(* PositionToLight: the pure computations *)

\* (cos(radians(diff)) + 1) / 2 in millionths, for diff = 0, 2.5, ..., 180 degrees.
RaisedCosine ==
    << 1000000, 999524, 998097, 995722, 992404, 988148, 982963, 976858, 969846,
       961940, 953154, 943505, 933013, 921696, 909576, 896677, 883022, 868639,
       853553, 837795, 821394, 804381, 786788, 768650, 750000, 730874, 711309,
       691342, 671010, 650353, 629410, 608220, 586824, 565263, 543578, 521810,
       500000, 478190, 456422, 434737, 413176, 391780, 370590, 349647, 328990,
       308658, 288691, 269126, 250000, 231350, 213212, 195619, 178606, 162205,
       146447, 131361, 116978, 103323, 90424, 78304, 66987, 56495, 46846, 38060,
       30154, 23142, 17037, 11852, 7596, 4278, 1903, 476, 0 >>

\* Mutant: the separation measured clockwise only, from the celestial body
\* to the light.
calculate_azimuth_alignment_clockwise(light_azimuth, celestial_azimuth) ==
    LET diff == (light_azimuth - celestial_azimuth) % 144
    IN  IF diff > 72 THEN 0 ELSE RaisedCosine[diff + 1]

calculate_azimuth_alignment(light_azimuth, celestial_azimuth) ==
    LET d0   == Abs(light_azimuth - celestial_azimuth)
        diff == IF d0 > 72 THEN 144 - d0 ELSE d0
    IN  Max(0, RaisedCosine[diff + 1])

\* max(-10, min(90, elevation))
ClampElevation(elevation) == Max(-10, Min(90, elevation))

\* Mutant: the elevation used as read, without the clamp to [-10, 90].
calculate_sun_brightness_unclamped(elevation) ==
    IF elevation <= 0 THEN 1800 ELSE 1800 + 80 * elevation

\* calculate_sun_brightness, in ninetieths of a percent (1800 = 20.0%).
calculate_sun_brightness(elevation) ==
    LET e == ClampElevation(elevation)
    IN  IF e <= 0 THEN 1800 ELSE 1800 + 80 * e

\* Elevations at which the float product pct * 255 / 100 falls just below the
\* integer it equals exactly, so that int() yields one less.
FloatShortSunBrightness == {15}

\* int(base_brightness_pct * 255 / 100)
SunBrightness255(elevation) ==
    LET exact == (calculate_sun_brightness(elevation) * 255) \div 9000
    IN  IF ClampElevation(elevation) \in FloatShortSunBrightness
        THEN exact - 1 ELSE exact

\* (base, twentieths) pairs at which base * dimmer_level falls just below the
\* integer it equals exactly.
FloatShortDimmer == {<<90, 14>>, <<170, 14>>, <<180, 7>>, <<180, 14>>}

\* int(base_brightness * self.dimmer_level)
ApplyDimmer(base, dimmer) ==
    LET exact == (base * dimmer) \div 1000
    IN  IF dimmer % 50 = 0 /\ <<base, dimmer \div 50>> \in FloatShortDimmer
        THEN exact - 1 ELSE exact

\* Mutant: the base rounded once, round(pct * 255 / 100 * dimmer_level).
SunBaseBrightnessRounded(elevation, dimmer) ==
    (calculate_sun_brightness(elevation) * 255 * (dimmer \div 50) + 90000) \div 180000

\* base_brightness of update_sun_lighting.
SunBaseBrightness(elevation, dimmer) ==
    ApplyDimmer(SunBrightness255(elevation), dimmer)

\* Mutant: round() in place of int().
MoonBaseBrightnessRounded(dimmer) == (153 * dimmer + 500) \div 1000

\* base_brightness of update_moon_lighting: int(255 * 0.6 * self.dimmer_level).
MoonBaseBrightness(dimmer) == (153 * dimmer) \div 1000

\* Mutant: neither the clamp of the elevation nor that of the result.
calculate_sun_color_temperature_unclamped(elevation) ==
    IF elevation < 0 THEN 2000
    ELSE IF elevation < 5 THEN 2000 + (elevation * 1000) \div 5
    ELSE IF elevation < 15 THEN 3000 + ((elevation - 5) * 1000) \div 10
    ELSE IF elevation < 45 THEN 4000 + ((elevation - 15) * 1500) \div 30
    ELSE 5500 + ((elevation - 45) * 1000) \div 45

calculate_sun_color_temperature(elevation) ==
    LET e == ClampElevation(elevation)
        kelvin ==
            IF e < 0 THEN 2000
            ELSE IF e < 5 THEN 2000 + (e * 1000) \div 5
            ELSE IF e < 15 THEN 3000 + ((e - 5) * 1000) \div 10
            ELSE IF e < 45 THEN 4000 + ((e - 15) * 1500) \div 30
            ELSE 5500 + ((e - 45) * 1000) \div 45
    IN  Min(6500, Max(2000, kelvin))

\* CelestialLightingTester.calculate_sun_color_temperature of test_api.py:
\* one line from 2000 K at -10 degrees to 6500 K at 90 degrees.
tester_calculate_sun_color_temperature(elevation) ==
    LET e == ClampElevation(elevation)
        kelvin == 2000 + (e + 10) * 45
    IN  Min(6500, Max(2000, kelvin))

\* CelestialLightingTester.calculate_sun_brightness of test_api.py, in
\* ninetieths of a percent.
tester_calculate_sun_brightness(elevation) ==
    LET e == ClampElevation(elevation)
    IN  IF e <= 0 THEN 1800 ELSE 1800 + 80 * e

--------------------------------------------------------------------------
(* Sensor reads.  A state of the platform's store is a string; "None" stands *)
(* for an entity that does not exist (get_state returns None).               *)

\* float(state) for the numeric strings considered; any other string raises.
NumericValue ==
    [s \in {"0", "30", "50", "80", "100"} |->
        CASE s = "0" -> 0 [] s = "30" -> 30 [] s = "50" -> 50
          [] s = "80" -> 80 [] s = "100" -> 100]

\* `if state and state != "unknown"`
Usable(state) == state # "None" /\ state # "unknown"

\* A loop over sensors that takes the first usable state and breaks:
\* <<>> when no sensor has one, <<state>> otherwise.
RECURSIVE FirstUsable(_)
FirstUsable(states) ==
    IF states = <<>> THEN <<>>
    ELSE IF Usable(Head(states)) THEN <<Head(states)>>
    ELSE FirstUsable(Tail(states))

\* conditions_map.get(weather_state, 50)
ConditionCloudCover(weather_state) ==
    CASE weather_state \in {"sunny", "clear", "clear-night"} -> 0
      [] weather_state \in {"partlycloudy", "partly-cloudy"} -> 30
      [] weather_state = "cloudy" -> 70
      [] weather_state \in {"fog", "pouring"} -> 90
      [] weather_state \in {"rainy", "lightning-rainy"} -> 80
      [] weather_state \in {"snowy", "hail"} -> 85
      [] weather_state = "lightning" -> 75
      [] OTHER -> 50

\* get_realtime_sun_color: <<kelvin>>, or <<>> for the None returned when
\* float(state) raises.  weather = [cloud: the two cloud sensors, home: weather.home].
get_realtime_sun_color(elevation, weather) ==
    LET found == FirstUsable(weather.cloud)
        raises == found # <<>> /\ found[1] \notin DOMAIN NumericValue
        cloud_cover ==
            IF found # <<>> THEN NumericValue[found[1]]
            ELSE IF weather.home # "None" THEN ConditionCloudCover(weather.home)
            ELSE 0
        base_kelvin ==
            IF elevation < 0 THEN 2000
            ELSE IF elevation < 10 THEN 2200 - cloud_cover * 2
            ELSE IF elevation < 30 THEN 3500 - cloud_cover * 5
            ELSE 5500 - cloud_cover * 10
    IN  IF raises THEN <<>> ELSE <<Max(2000, Min(6500, base_kelvin))>>

\* kelvin of update_sun_lighting: the real-time value unless it is None or 0.
SunKelvin(elevation, weather) ==
    LET kelvin == get_realtime_sun_color(elevation, weather)
    IN  IF kelvin = <<>> \/ kelvin[1] = 0
        THEN calculate_sun_color_temperature(elevation)
        ELSE kelvin[1]

\* (base, phase) pairs at which base * intensity falls just below the integer
\* it equals exactly (calculate_moon_color).
FloatShortMoonColor ==
    {<<250, p>> : p \in (15..21) \cup (69..74) \cup {82, 83}}
    \cup {<<200, 15>>, <<200, 70>>}

\* Mutant: the intensity phase / 100, nothing at new moon.
MoonIntensityDark(base, phase) == (base * phase) \div 100

\* int(base * (0.6 + 0.4 * (phase / 100)))
MoonIntensity(base, phase) ==
    LET exact == (base * (300 + 2 * phase)) \div 500
    IN  IF <<base, phase>> \in FloatShortMoonColor THEN exact - 1 ELSE exact

\* base_r, base_g, base_b of calculate_moon_color.
MoonColorBase(altitude) ==
    IF altitude > 45 THEN <<230, 235, 255>>
    ELSE IF altitude > 15 THEN <<240, 245, 255>>
    ELSE IF altitude > 0 THEN <<250, 245, 235>>
    ELSE <<255, 230, 200>>

calculate_moon_color(altitude, phase) ==
    LET base == MoonColorBase(altitude)
    IN  <<Min(255, MoonIntensity(base[1], phase)),
          Min(255, MoonIntensity(base[2], phase)),
          Min(255, MoonIntensity(base[3], phase))>>

\* (base, phase) pairs at which base * phase_factor falls just below the
\* integer it equals exactly (get_realtime_moon_color).
FloatShortPhaseFactor ==
    {<<180, 40>>, <<200, 13>>, <<200, 15>>, <<200, 16>>, <<200, 57>>, <<200, 82>>,
     <<225, 84>>, <<250, 36>>, <<250, 84>>}

\* int(base * (0.5 + phase / 200))
PhaseFactor(base, phase) ==
    LET exact == (base * (100 + phase)) \div 200
    IN  IF <<base, phase>> \in FloatShortPhaseFactor THEN exact - 1 ELSE exact

\* int(top - span * (1 - humidity / 100))
HumidityBase(top, span, humidity) ==
    top - ((span * (100 - humidity) + 99) \div 100)

\* base_r, base_g, base_b of get_realtime_moon_color.
RealtimeMoonColorBase(altitude, humidity) ==
    IF altitude < 10 THEN <<255, 180, 120>>
    ELSE IF altitude < 30
         THEN <<HumidityBase(255, 10, humidity),
                HumidityBase(240, 20, humidity),
                HumidityBase(210, 30, humidity)>>
    ELSE <<226, 231, 244>>

\* The humidity get_realtime_moon_color works with: the first usable sensor's
\* value, 50 when there is none.
HumidityRead(humidity_states) ==
    LET found == FirstUsable(humidity_states)
    IN  IF found # <<>> /\ found[1] \in DOMAIN NumericValue
        THEN NumericValue[found[1]] ELSE 50

\* get_realtime_moon_color: <<rgb>>, or <<>> for None (moon below the horizon,
\* or float(state) raised).  humidity_states: the three humidity sensors.
get_realtime_moon_color(altitude, phase, humidity_states) ==
    LET found == FirstUsable(humidity_states)
        raises == found # <<>> /\ found[1] \notin DOMAIN NumericValue
        base == RealtimeMoonColorBase(altitude, HumidityRead(humidity_states))
    IN  IF raises \/ altitude < 0 THEN <<>>
        ELSE << <<Min(255, PhaseFactor(base[1], phase)),
                  Min(255, PhaseFactor(base[2], phase)),
                  Min(255, PhaseFactor(base[3], phase))>> >>

\* rgb of update_moon_lighting.
MoonRGB(altitude, phase, humidity_states) ==
    LET rgb == get_realtime_moon_color(altitude, phase, humidity_states)
    IN  IF rgb = <<>> THEN calculate_moon_color(altitude, phase) ELSE rgb[1]

--------------------------------------------------------------------------
(* Service calls and the platform's light states *)

\* A light/turn_on or light/turn_off call.  kelvin = 0, rgb_color = <<>> and
\* brightness = -1 stand for an argument the call does not pass.  `site` is
\* the function that issues the call ("pulse" and "restore" are the two loops
\* of flash_lights).
TurnOn(entity_id, kelvin, rgb_color, brightness, site) ==
    [service |-> "turn_on", entity_id |-> entity_id, kelvin |-> kelvin,
     rgb_color |-> rgb_color, brightness |-> brightness, site |-> site]

TurnOff(entity_id, site) ==
    [service |-> "turn_off", entity_id |-> entity_id, kelvin |-> 0,
     rgb_color |-> <<>>, brightness |-> -1, site |-> site]

\* State and attributes of a light that is off.
LightOff == [state |-> "off", brightness |-> 0, kelvin |-> 0, rgb_color |-> <<>>]

\* State and attributes of a light switched on by hand at full white.
LightOnDefault ==
    [state |-> "on", brightness |-> 255, kelvin |-> 0, rgb_color |-> <<255, 255, 255>>]

\* The rgb_color attribute the platform reports for a light: the colour last
\* set, or the platform's rendering of a colour temperature (kept symbolic).
RgbAttribute(light) ==
    IF light.rgb_color # <<>> THEN light.rgb_color
    ELSE <<light.kelvin, light.kelvin, light.kelvin>>

\* Effect of one call on the store.
ApplyCall(lts, c) ==
    IF c.service = "turn_off" THEN [lts EXCEPT ![c.entity_id] = LightOff]
    ELSE [lts EXCEPT ![c.entity_id] =
            [state |-> "on", brightness |-> c.brightness,
             kelvin |-> c.kelvin, rgb_color |-> c.rgb_color]]

RECURSIVE ApplyCalls(_, _)
ApplyCalls(lts, cs) ==
    IF cs = <<>> THEN lts ELSE ApplyCalls(ApplyCall(lts, Head(cs)), Tail(cs))

RECURSIVE Flatten(_)
Flatten(ss) == IF ss = <<>> THEN <<>> ELSE Head(ss) \o Flatten(Tail(ss))

--------------------------------------------------------------------------
(* Decision cycles: the calls each function issues, in order *)

\* Mutant: the weight 1 - alignment, brightest facing away.
calculate_directional_brightness_inverted(base_brightness, celestial_azimuth) ==
    [i \in Entities |->
        base_brightness *
            (1000000 -
             calculate_azimuth_alignment(light_directions[i], celestial_azimuth))]

\* brightness_map: per entity, base_brightness * alignment (millionths of a
\* brightness unit).
calculate_directional_brightness(base_brightness, celestial_azimuth) ==
    [i \in Entities |->
        base_brightness *
            calculate_azimuth_alignment(light_directions[i], celestial_azimuth)]

\* int(brightness)
IntBrightness(brightness) == brightness \div 1000000

\* Mutant: the on/off test made on the truncated brightness.
update_sun_lighting_truncated(dimmer, lts, elevation, azimuth, weather) ==
    LET kelvin == SunKelvin(elevation, weather)
        base_brightness == SunBaseBrightness(elevation, dimmer)
        brightness_map == calculate_directional_brightness(base_brightness, azimuth)
    IN  Flatten([i \in Entities |->
            IF IntBrightness(brightness_map[i]) > 0
            THEN <<TurnOn(i, kelvin, <<>>, IntBrightness(brightness_map[i]),
                          "update_sun_lighting")>>
            ELSE IF lts[i].state = "on"
                 THEN <<TurnOff(i, "update_sun_lighting")>>
                 ELSE <<>>])

\* Mutant: sun mode lights only the entities aligned by more than 50%, as
\* moon mode does.
update_sun_lighting_half(dimmer, lts, elevation, azimuth, weather) ==
    LET kelvin == SunKelvin(elevation, weather)
        base_brightness == SunBaseBrightness(elevation, dimmer)
        brightness_map == calculate_directional_brightness(base_brightness, azimuth)
    IN  Flatten([i \in Entities |->
            IF 2 * brightness_map[i] > base_brightness * 1000000
            THEN <<TurnOn(i, kelvin, <<>>, IntBrightness(brightness_map[i]),
                          "update_sun_lighting")>>
            ELSE IF lts[i].state = "on"
                 THEN <<TurnOff(i, "update_sun_lighting")>>
                 ELSE <<>>])

\* The loop of update_sun_lighting over brightness_map.
update_sun_lighting(dimmer, lts, elevation, azimuth, weather) ==
    LET kelvin == SunKelvin(elevation, weather)
        base_brightness == SunBaseBrightness(elevation, dimmer)
        brightness_map == calculate_directional_brightness(base_brightness, azimuth)
    IN  Flatten([i \in Entities |->
            IF brightness_map[i] > 0
            THEN <<TurnOn(i, kelvin, <<>>, IntBrightness(brightness_map[i]),
                          "update_sun_lighting")>>
            ELSE IF lts[i].state = "on"
                 THEN <<TurnOff(i, "update_sun_lighting")>>
                 ELSE <<>>])

\* Mutant: a sort that is not stable, entities of equal alignment coming out
\* in reverse insertion order.
RECURSIVE SortedByAlignmentUnstable(_, _)
SortedByAlignmentUnstable(light_alignments, S) ==
    IF S = {} THEN <<>>
    ELSE LET first == CHOOSE i \in S : \A j \in S :
                          \/ light_alignments[i] > light_alignments[j]
                          \/ /\ light_alignments[i] = light_alignments[j]
                             /\ i >= j
         IN  <<first>> \o SortedByAlignmentUnstable(light_alignments, S \ {first})

\* sorted(light_alignments.items(), key=alignment, reverse=True): a stable
\* sort, so entities of equal alignment keep their insertion order.
RECURSIVE SortedByAlignment(_, _)
SortedByAlignment(light_alignments, S) ==
    IF S = {} THEN <<>>
    ELSE LET first == CHOOSE i \in S : \A j \in S :
                          \/ light_alignments[i] > light_alignments[j]
                          \/ /\ light_alignments[i] = light_alignments[j]
                             /\ i <= j
         IN  <<first>> \o SortedByAlignment(light_alignments, S \ {first})

\* Mutant: the slice takes the first three entities.
lights_to_activate_three(azimuth) ==
    LET light_alignments ==
            [i \in Entities |->
                calculate_azimuth_alignment(light_directions[i], azimuth)]
        sorted_lights == SortedByAlignment(light_alignments, Entities)
        closest_lights == SubSeq(sorted_lights, 1, Min(3, Len(sorted_lights)))
    IN  SelectSeq(closest_lights, LAMBDA i : light_alignments[i] > 500000)

\* lights_to_activate of update_moon_lighting: of the first two entities of
\* the sorted list, those aligned by more than 50%.
lights_to_activate(azimuth) ==
    LET light_alignments ==
            [i \in Entities |->
                calculate_azimuth_alignment(light_directions[i], azimuth)]
        sorted_lights == SortedByAlignment(light_alignments, Entities)
        closest_lights == SubSeq(sorted_lights, 1, Min(2, Len(sorted_lights)))
    IN  SelectSeq(closest_lights, LAMBDA i : light_alignments[i] > 500000)

\* The final loop of update_moon_lighting over light_directions.
update_moon_lighting(dimmer, altitude, azimuth, phase, humidity_states) ==
    LET rgb == MoonRGB(altitude, phase, humidity_states)
        base_brightness == MoonBaseBrightness(dimmer)
        active == lights_to_activate(azimuth)
    IN  [i \in Entities |->
            IF \E k \in 1..Len(active) : active[k] = i
            THEN TurnOn(i, 0, rgb, base_brightness, "update_moon_lighting")
            ELSE TurnOff(i, "update_moon_lighting")]

\* Mutant: the "off" branch returns without a call.
TurnOffNone(lts) == <<>>

\* Mutant: light/turn_off sent to every entity, whatever its state.
TurnOffEvery(lts) == [i \in Entities |-> TurnOff(i, "update_lights")]

\* The "off" branch of update_lights.
TurnOffAll(lts) ==
    Flatten([i \in Entities |->
        IF lts[i].state = "on" THEN <<TurnOff(i, "update_lights")>> ELSE <<>>])

\* What one decision cycle meets: the sun's position and the weather sensors
\* in sun mode, the moon's position and the humidity sensors in moon mode;
\* `ok` is false when the position cannot be had (float() of the state
\* raises, or get_moon_position does); `sink_fails` is the entity for which
\* call_service raises, 0 when it raises for none.
NoReads ==
    [body |-> "none", elevation |-> 0, altitude |-> 0, azimuth |-> 0, phase |-> 0,
     weather |-> [cloud |-> <<>>, home |-> "None"], humidity |-> <<>>,
     ok |-> TRUE, sink_fails |-> 0]

SunReads(elevation, azimuth, weather) ==
    [NoReads EXCEPT !.body = "sun", !.elevation = elevation,
                    !.azimuth = azimuth, !.weather = weather]

MoonReads(altitude, azimuth, phase, humidity_states) ==
    [NoReads EXCEPT !.body = "moon", !.altitude = altitude, !.azimuth = azimuth,
                    !.phase = phase, !.humidity = humidity_states]

\* The calls of a loop that were issued before call_service raised for
\* `entity_id`: the exception leaves the loop.
RECURSIVE UntilRaise(_, _)
UntilRaise(cs, entity_id) ==
    IF cs = <<>> THEN <<>>
    ELSE IF Head(cs).entity_id = entity_id THEN <<>>
    ELSE <<Head(cs)>> \o UntilRaise(Tail(cs), entity_id)

\* Mutant: the except clause switches every light off.
update_lights_except_off(lts) == TurnOffAll(lts)

\* The except clause of update_lights: two log lines, no call.
update_lights_except(lts) == <<>>

\* update_lights: the calls of one cycle in mode `mode`.  The position is
\* read before the first call; an exception raised by a call ends the cycle
\* in the except clause as well.
update_lights_calls(mode, dimmer, lts, reads) ==
    IF mode = "off" THEN UntilRaise(TurnOffAll(lts), reads.sink_fails)
    ELSE IF ~reads.ok THEN update_lights_except(lts)
    ELSE IF mode = "sun"
    THEN UntilRaise(update_sun_lighting(dimmer, lts, reads.elevation, reads.azimuth,
                                        reads.weather),
                    reads.sink_fails)
    ELSE IF mode = "moon"
    THEN UntilRaise(update_moon_lighting(dimmer, reads.altitude, reads.azimuth,
                                         reads.phase, reads.humidity),
                    reads.sink_fails)
    ELSE <<>>

\* Mutant: the captured state restored before the pulse is sent.
flash_lights_restore_first(lts, color) ==
    LET pulse == Flatten([i \in Entities |->
                    IF lts[i].state = "on"
                    THEN <<TurnOn(i, 0, color, 255, "flash_pulse")>> ELSE <<>>])
        restore == Flatten([i \in Entities |->
                    IF lts[i].state = "on"
                    THEN <<TurnOn(i, 0, RgbAttribute(lts[i]), lts[i].brightness,
                                  "flash_restore")>>
                    ELSE <<>>])
    IN  restore \o pulse

\* Mutant: every fixture pulsed, the ones that are off included.
flash_lights_all(lts, color) ==
    LET pulse == [i \in Entities |-> TurnOn(i, 0, color, 255, "flash_pulse")]
        restore == Flatten([i \in Entities |->
                    IF lts[i].state = "on"
                    THEN <<TurnOn(i, 0, RgbAttribute(lts[i]), lts[i].brightness,
                                  "flash_restore")>>
                    ELSE <<TurnOff(i, "flash_restore")>>])
    IN  pulse \o restore

\* flash_lights(1, color): the pulse calls, then the restore calls, for the
\* entities that are on.
flash_lights(lts, color) ==
    LET pulse == Flatten([i \in Entities |->
                    IF lts[i].state = "on"
                    THEN <<TurnOn(i, 0, color, 255, "flash_pulse")>> ELSE <<>>])
        restore == Flatten([i \in Entities |->
                    IF lts[i].state = "on"
                    THEN <<TurnOn(i, 0, RgbAttribute(lts[i]), lts[i].brightness,
                                  "flash_restore")>>
                    ELSE <<>>])
    IN  pulse \o restore

\* The colour cycle_lighting_mode flashes on entering `mode`.
FlashColor(mode) ==
    IF mode = "sun" THEN <<255, 200, 100>>
    ELSE IF mode = "moon" THEN <<100, 100, 255>>
    ELSE <<255, 0, 0>>

--------------------------------------------------------------------------
(* Inputs of the environment *)

NoSensor == [cloud |-> <<"None", "None">>, home |-> "None"]

\* Sun position (elevation in degrees, azimuth in steps) and weather sensors.
SunSamples ==
    { SunReads(45, 0, NoSensor),
      SunReads(45, 72, [cloud |-> <<"unavailable", "None">>, home |-> "None"]),
      SunReads(-5, 4, [cloud |-> <<"unknown", "50">>, home |-> "cloudy"]),
      SunReads(15, 72, [cloud |-> <<"None", "None">>, home |-> "cloudy"]) }

\* Moon position, phase and humidity sensors.
MoonSamples ==
    { MoonReads(20, 4, 50, <<"None", "None", "None">>),
      MoonReads(20, 36, 0, <<"unknown", "80", "None">>),
      MoonReads(-5, 0, 50, <<"None", "None", "None">>),
      MoonReads(50, 0, 100, <<"unavailable", "None", "None">>) }

\* The values a cycle in mode `mode` can read.
ReadsIn(mode) ==
    IF mode = "sun" THEN SunSamples
    ELSE IF mode = "moon" THEN MoonSamples
    ELSE {NoReads}

\* The position read of a cycle in mode `mode` fails.
FailedRead(mode) == [NoReads EXCEPT !.body = mode, !.ok = FALSE]

\* The positions read on the platform that can fail.
FaultReadsIn(mode) ==
    IF mode = "sun"
    THEN {SunReads(45, 0, NoSensor),
          SunReads(15, 72, [cloud |-> <<"None", "None">>, home |-> "cloudy"])}
    ELSE IF mode = "moon"
    THEN {MoonReads(20, 4, 50, <<"None", "None", "None">>)}
    ELSE {NoReads}

\* Largest number of failed reads and raising calls in one run.
MaxFaults == 1

\* 1 when the read failed or a call raises, 0 otherwise.
FaultsIn(reads) == IF reads.ok /\ reads.sink_fails = 0 THEN 0 ELSE 1

\* What a cycle in mode `mode` can meet: with `faults`, while fewer than
\* MaxFaults were met, also a failed position read, or a call_service that
\* raises for one of the entities.
InputsIn(mode, faults) ==
    IF ~faults THEN ReadsIn(mode)
    ELSE IF fault_count >= MaxFaults THEN FaultReadsIn(mode)
    ELSE FaultReadsIn(mode)
         \cup (IF mode = "off" THEN {} ELSE {FailedRead(mode)})
         \cup {[r EXCEPT !.sink_fails = i] : r \in FaultReadsIn(mode),
                                             i \in Entities}

--------------------------------------------------------------------------
(* ControllerStateMachine *)

modes == <<"sun", "moon", "off">>

\* modes.index(mode)
ModeIndex(mode) == CHOOSE i \in 1..Len(modes) : modes[i] = mode

\* Mutant: the index advanced by two.
NextModeSkip(mode) == modes[((ModeIndex(mode) + 1) % Len(modes)) + 1]

\* modes[(current_index + 1) % len(modes)]
NextMode(mode) == modes[(ModeIndex(mode) % Len(modes)) + 1]

\* round(x * 20) / 20 on thousandths, Python's round (half to even).
RoundToTwentieth(x) ==
    LET q == (x * 20) \div 1000
        r == (x * 20) % 1000
    IN  (IF r > 500 \/ (r = 500 /\ q % 2 = 1) THEN q + 1 ELSE q) * 50

\* Mutant: the lower clamp at 0.0 instead of 0.1.
RotatedLevelNoFloor(level, direction) ==
    RoundToTwentieth(IF direction > 0 THEN Min(1000, level + 50)
                     ELSE Max(0, level - 50))

\* Mutant: a step of 0.1 per click.
RotatedLevelBigStep(level, direction) ==
    RoundToTwentieth(IF direction > 0 THEN Min(1000, level + 100)
                     ELSE Max(100, level - 100))

\* The dimmer level handle_dimmer_rotation computes (step = 0.05).
RotatedLevel(level, direction) ==
    RoundToTwentieth(IF direction > 0 THEN Min(1000, level + 50)
                     ELSE Max(100, level - 50))

\* The last three entries of a history.
LastThree(h) == IF Len(h) > 3 THEN SubSeq(h, Len(h) - 2, Len(h)) ELSE h

\* An event dictionary as handle_aurora_event receives it: each key holds
\* <<value>>, or <<>> when the key is absent.
EventData(type, command, subtype, steps) ==
    [type |-> type, command |-> command, subtype |-> subtype, steps |-> steps]

\* The handler was not entered through handle_aurora_event.
NoData == EventData(<<>>, <<>>, <<>>, <<>>)

\* Python truth of an optional number: None and 0 are false.
Truthy(x) == x # <<>> /\ x[1] # 0

\* Mutant: the timer and the listeners registered whatever the configuration.
initialize_always(directional_lights, latitude, longitude, aurora_device_id) ==
    [latitude |-> latitude, longitude |-> longitude,
     aurora_device_id |-> aurora_device_id,
     run_every |-> TRUE, listen_event |-> aurora_device_id # <<>>]

\* What initialize registers.  It returns before run_every and listen_event
\* when no entry of directional_lights has a known label, or when latitude or
\* longitude is missing; the listeners need aurora_device_id as well.
initialize(directional_lights, latitude, longitude, aurora_device_id) ==
    LET started == /\ ParseDirections(directional_lights) # <<>>
                   /\ Truthy(latitude)
                   /\ Truthy(longitude)
    IN  [latitude |-> latitude, longitude |-> longitude,
         aurora_device_id |-> aurora_device_id,
         run_every |-> started,
         listen_event |-> started /\ aurora_device_id # <<>>]

\* An installation that started, with a controller configured.
StartedApp ==
    [latitude |-> <<47>>, longitude |-> <<8>>, aurora_device_id |-> <<"aurora">>,
     run_every |-> TRUE, listen_event |-> TRUE]

\* No function is being evaluated on its own.
NoProbe ==
    [fn |-> "none", elevation |-> 0, other_elevation |-> 0, dimmer |-> 1000,
     light_azimuth |-> 0, celestial_azimuth |-> 0, base_brightness |-> 0,
     altitude |-> 0, phase |-> 0, other_phase |-> 0, humidity |-> <<>>,
     out |-> <<>>]

Snapshot ==
    [lighting_mode |-> lighting_mode, dimmer_level |-> dimmer_level,
     manual_override |-> manual_override, lights |-> lights]

Init ==
    /\ \E cfg \in Configs : light_directions = ParseDirections(cfg)
    /\ light_directions # <<>>
    /\ lighting_mode = "sun"
    /\ dimmer_level = 1000
    /\ manual_override = FALSE
    /\ \E l \in {LightOff, LightOnDefault} :
           lights = [i \in 1..Len(light_directions) |-> l]
    /\ calls = <<>>
    /\ ev = [kind |-> "initialize", direction |-> 0, reads |-> NoReads,
          raised |-> FALSE, data |-> NoData]
    /\ pre = Snapshot
    /\ press_hist = <<>>
    /\ probe = NoProbe
    /\ fault_count = 0
    /\ app = StartedApp

\* update_lights as the run_every callback.
update_lights_env(faults) ==
    \E reads \in InputsIn(lighting_mode, faults) :
        \E cycle \in {update_lights_calls(lighting_mode, dimmer_level, lights, reads)} :
            /\ calls' = cycle
            /\ lights' = ApplyCalls(lights, cycle)
            /\ ev' = [kind |-> "tick", direction |-> 0, reads |-> reads,
                  raised |-> FALSE, data |-> NoData]
            /\ pre' = Snapshot
            /\ UNCHANGED probe
            /\ fault_count' = fault_count + FaultsIn(reads)
            /\ UNCHANGED app
            /\ UNCHANGED <<light_directions, lighting_mode, dimmer_level,
                           manual_override, press_hist>>

\* Mutant: the reset commented out, the dimmer persisting across mode changes.
ResetLevelKeep(level, override) == level

\* The dimmer level after cycle_lighting_mode's reset.
ResetLevel(level, override) == IF override THEN 1000 ELSE level

\* cycle_lighting_mode.  flash_lights has no try: when call_service raises in
\* it the exception leaves the handler, after the mode and the dimmer level
\* were set and before update_lights is called.
cycle_lighting_mode_on(data, faults) ==
    \E mode \in {NextMode(lighting_mode)},
       level \in {ResetLevel(dimmer_level, manual_override)} :
    \E reads \in InputsIn(mode, faults) :
    \E flash \in {flash_lights(lights, FlashColor(mode))} :
    \E issued \in {UntilRaise(flash, reads.sink_fails)} :
    \E flashed \in {ApplyCalls(lights, issued)} :
    \E cycle \in {IF issued = flash
                   THEN update_lights_calls(mode, level, flashed, reads)
                   ELSE <<>>} :
        /\ lighting_mode' = mode
        /\ dimmer_level' = level
        /\ manual_override' = FALSE
        /\ calls' = issued \o cycle
        /\ lights' = ApplyCalls(flashed, cycle)
        /\ ev' = [kind |-> "press", direction |-> 0, reads |-> reads,
                  raised |-> issued # flash, data |-> data]
        /\ pre' = Snapshot
        /\ UNCHANGED probe
        /\ fault_count' = fault_count + FaultsIn(reads)
        /\ UNCHANGED app
        /\ press_hist' = LastThree(Append(press_hist, lighting_mode))
        /\ UNCHANGED light_directions

\* cycle_lighting_mode called directly, the event that led to it not recorded.
cycle_lighting_mode_env(faults) == cycle_lighting_mode_on(NoData, faults)

\* Mutant: a rotation that does not mark the dimmer as manually set.
handle_dimmer_rotation_unmarked(direction) ==
    /\ direction # 0
    /\ \E level \in {RotatedLevel(dimmer_level, direction)},
          reads \in ReadsIn(lighting_mode) :
       \E cycle \in {update_lights_calls(lighting_mode, level, lights, reads)} :
           /\ dimmer_level' = level
           /\ calls' = cycle
           /\ lights' = ApplyCalls(lights, cycle)
           /\ ev' = [kind |-> "rotate", direction |-> direction, reads |-> reads,
                     raised |-> FALSE, data |-> NoData]
           /\ pre' = Snapshot
           /\ UNCHANGED <<probe, fault_count, app>>
           /\ UNCHANGED <<light_directions, lighting_mode, manual_override,
                          press_hist>>

\* Mutant: a rotation while off wakes the lights in sun mode.
handle_dimmer_rotation_wakes(direction) ==
    /\ direction # 0
    /\ \E level \in {RotatedLevel(dimmer_level, direction)},
          mode \in {IF lighting_mode = "off" THEN "sun" ELSE lighting_mode} :
       \E reads \in ReadsIn(mode) :
       \E cycle \in {update_lights_calls(mode, level, lights, reads)} :
           /\ manual_override' = TRUE
           /\ dimmer_level' = level
           /\ lighting_mode' = mode
           /\ calls' = cycle
           /\ lights' = ApplyCalls(lights, cycle)
           /\ ev' = [kind |-> "rotate", direction |-> direction, reads |-> reads,
                  raised |-> FALSE, data |-> NoData]
           /\ pre' = Snapshot
           /\ UNCHANGED <<probe, fault_count, app>>
           /\ UNCHANGED <<light_directions, press_hist>>

\* Mutant: a rotation while off is ignored by the dimmer.
handle_dimmer_rotation_off_ignored(direction) ==
    /\ direction # 0
    /\ \E level \in {IF lighting_mode = "off" THEN dimmer_level
                      ELSE RotatedLevel(dimmer_level, direction)},
          reads \in ReadsIn(lighting_mode) :
       \E cycle \in {update_lights_calls(lighting_mode, level, lights, reads)} :
           /\ manual_override' = (lighting_mode # "off" \/ manual_override)
           /\ dimmer_level' = level
           /\ calls' = cycle
           /\ lights' = ApplyCalls(lights, cycle)
           /\ ev' = [kind |-> "rotate", direction |-> direction, reads |-> reads,
                  raised |-> FALSE, data |-> NoData]
           /\ pre' = Snapshot
           /\ UNCHANGED <<probe, fault_count, app>>
           /\ UNCHANGED <<light_directions, lighting_mode, press_hist>>

handle_dimmer_rotation_on(data, direction, faults) ==
    /\ direction # 0
    /\ \E level \in {RotatedLevel(dimmer_level, direction)},
          reads \in InputsIn(lighting_mode, faults) :
       \E cycle \in {update_lights_calls(lighting_mode, level, lights, reads)} :
           /\ manual_override' = TRUE
           /\ dimmer_level' = level
           /\ calls' = cycle
           /\ lights' = ApplyCalls(lights, cycle)
           /\ ev' = [kind |-> "rotate", direction |-> direction, reads |-> reads,
                  raised |-> FALSE, data |-> data]
           /\ pre' = Snapshot
           /\ UNCHANGED probe
           /\ fault_count' = fault_count + FaultsIn(reads)
           /\ UNCHANGED app
           /\ UNCHANGED <<light_directions, lighting_mode, press_hist>>

\* handle_dimmer_rotation called with a direction, the event that led to it
\* not recorded.
handle_dimmer_rotation_env(direction, faults) ==
    handle_dimmer_rotation_on(NoData, direction, faults)

\* Someone switches a light on at the wall or in the platform's own UI.
ExternalSwitchOn ==
    \E i \in Entities :
        /\ lights[i].state = "off"
        /\ lights' = [lights EXCEPT ![i] = LightOnDefault]
        /\ calls' = <<>>
        /\ ev' = [kind |-> "external", direction |-> 0, reads |-> NoReads,
          raised |-> FALSE, data |-> NoData]
        /\ pre' = Snapshot
        /\ UNCHANGED <<probe, fault_count, app>>
        /\ UNCHANGED <<light_directions, lighting_mode, dimmer_level,
                       manual_override, press_hist>>

\* The handlers with a platform that answers every read and takes every call.
update_lights == update_lights_env(FALSE)

cycle_lighting_mode == cycle_lighting_mode_env(FALSE)

handle_dimmer_rotation(direction) == handle_dimmer_rotation_env(direction, FALSE)

RotateCW == handle_dimmer_rotation(1)
RotateCCW == handle_dimmer_rotation(-1)

Next ==
    \/ update_lights
    \/ cycle_lighting_mode
    \/ RotateCW
    \/ RotateCCW
    \/ ExternalSwitchOn

Spec == Init /\ [][Next]_vars

--------------------------------------------------------------------------
(* The application from its configuration on: what initialize registers,   *)
(* and the raw controller events handle_aurora_event receives.             *)

\* data.get("type", data.get("command", ""))
EventType(data) ==
    IF data.type # <<>> THEN data.type[1]
    ELSE IF data.command # <<>> THEN data.command[1]
    ELSE ""

\* data.get("subtype", "")
EventSubtype(data) == IF data.subtype # <<>> THEN data.subtype[1] ELSE ""

\* The event types handle_aurora_event takes for a button press.
PressTypes == {"short_release", "click", "button_1_press", "button_1_click", "on"}

\* Mutant: the press taken on initial_press as well as on short_release.
IsPressEager(data) == EventType(data) \in PressTypes \cup {"initial_press"}

IsPress(data) == EventType(data) \in PressTypes

IsRotation(data) ==
    /\ EventType(data) = "start"
    /\ EventSubtype(data) \in {"clock_wise", "counter_clock_wise"}

\* handle_aurora_event: a press cycles the mode, a rotation start turns the
\* dimmer one step (the steps value is not read), anything else is dropped.
handle_aurora_event(data) ==
    IF IsPress(data) THEN cycle_lighting_mode_on(data, FALSE)
    ELSE IF IsRotation(data)
    THEN handle_dimmer_rotation_on(
             data, IF EventSubtype(data) = "counter_clock_wise" THEN -1 ELSE 1,
             FALSE)
    ELSE /\ ev' = [kind |-> "ignored", direction |-> 0, reads |-> NoReads,
                   raised |-> FALSE, data |-> data]
         /\ calls' = <<>>
         /\ pre' = Snapshot
         /\ UNCHANGED <<light_directions, lighting_mode, dimmer_level,
                        manual_override, lights, press_hist, probe,
                        fault_count, app>>

\* directional_lights of the installations considered: none, labels that
\* direction_map does not know, and usable ones.
StartConfigChoices ==
    { <<>>,
      <<"UP">>,
      <<"UP", "DOWN">>,
      <<"N", "UP", "S">> }

\* Latitude or longitude after the fallback to zone.home: None, 0 or a value.
Coordinates == { <<>>, <<0>>, <<47>> }

\* aurora_device_id: absent or configured.
DeviceIds == { <<>>, <<"aurora">> }

\* Events a Hue, ZHA or deCONZ integration delivers for the controller.
AuroraEvents ==
    { EventData(<<"initial_press">>, <<>>, <<"1">>, <<>>),
      EventData(<<"short_release">>, <<>>, <<"1">>, <<>>),
      EventData(<<>>, <<"on">>, <<>>, <<>>),
      EventData(<<"start">>, <<>>, <<"clock_wise">>, <<1>>),
      EventData(<<"start">>, <<>>, <<"clock_wise">>, <<200>>),
      EventData(<<"start">>, <<>>, <<"counter_clock_wise">>, <<200>>),
      EventData(<<"repeat">>, <<>>, <<"clock_wise">>, <<200>>),
      EventData(<<"start">>, <<>>, <<>>, <<>>),
      EventData(<<>>, <<"step">>, <<>>, <<>>) }

InitEvents ==
    /\ \E cfg \in StartConfigChoices, latitude \in Coordinates,
          longitude \in Coordinates, aurora_device_id \in DeviceIds :
           /\ light_directions = ParseDirections(cfg)
           /\ app = initialize(cfg, latitude, longitude, aurora_device_id)
    /\ lighting_mode = "sun"
    /\ dimmer_level = 1000
    /\ manual_override = FALSE
    /\ lights = [i \in 1..Len(light_directions) |-> LightOff]
    /\ calls = <<>>
    /\ ev = [kind |-> "initialize", direction |-> 0, reads |-> NoReads,
             raised |-> FALSE, data |-> NoData]
    /\ pre = Snapshot
    /\ press_hist = <<>>
    /\ probe = NoProbe
    /\ fault_count = 0

\* The run_every timer fires, if initialize registered it.
TimerFires == app.run_every /\ update_lights_env(FALSE)

\* The platform delivers a controller event, if initialize listens for them.
AuroraEvent ==
    /\ app.listen_event
    /\ \E data \in AuroraEvents : handle_aurora_event(data)

NextEvents == TimerFires \/ AuroraEvent

SpecEvents == InitEvents /\ [][NextEvents]_vars

--------------------------------------------------------------------------
(* The controller on a platform that can fail: a position read that does   *)
(* not parse, a service call that raises for one entity.                   *)

FaultConfigChoices ==
    { <<"N", "UP", "S">>,
      <<"N", "NNW", "NNE">> }

InitFault ==
    /\ \E cfg \in {c \in FaultConfigChoices : Len(c) <= MaxFixtures} :
           light_directions = ParseDirections(cfg)
    /\ lighting_mode = "sun"
    /\ dimmer_level = 1000
    /\ manual_override = FALSE
    /\ lights = [i \in 1..Len(light_directions) |-> LightOff]
    /\ calls = <<>>
    /\ ev = [kind |-> "initialize", direction |-> 0, reads |-> NoReads,
             raised |-> FALSE, data |-> NoData]
    /\ pre = Snapshot
    /\ press_hist = <<>>
    /\ probe = NoProbe
    /\ fault_count = 0
    /\ app = StartedApp

TickFault == update_lights_env(TRUE)
PressFault == cycle_lighting_mode_env(TRUE)
RotateCWFault == handle_dimmer_rotation_env(1, TRUE)
RotateCCWFault == handle_dimmer_rotation_env(-1, TRUE)

NextFault == TickFault \/ PressFault \/ RotateCWFault \/ RotateCCWFault

SpecFault == InitFault /\ [][NextFault]_vars

--------------------------------------------------------------------------
(* The sun functions evaluated on their own, over elevations far beyond the *)
(* range the platform reports, and one sun cycle for a fixture that faces   *)
(* the sun.                                                                 *)

\* Largest elevation, in degrees either side of the horizon, considered.
MaxElevation == 200

Elevations == (-MaxElevation)..MaxElevation

\* Elevations a second evaluation is compared with: the ends of the range,
\* the clamp limits and the breakpoints of the curves.
ElevationMarks ==
    {-MaxElevation, -200, -90, -11, -10, -1, 0, 1, 5, 15, 45, 89, 90, 91, 200,
     MaxElevation}

\* The values dimmer_level takes: 0.10, 0.15, ..., 1.00.
DimmerLevels == {50 * k : k \in 2..20}

SunProbes ==
    {[NoProbe EXCEPT !.fn = "input", !.elevation = e, !.other_elevation = o] :
        e \in Elevations, o \in ElevationMarks}
    \cup {[NoProbe EXCEPT !.fn = "input", !.elevation = e,
                          !.other_elevation = e + 1] : e \in Elevations}
    \cup {[NoProbe EXCEPT !.fn = "input", !.elevation = e, !.dimmer = d] :
            e \in Elevations, d \in DimmerLevels}

\* One fixture facing east, one facing west, both off; the mode is sun.
InitSun ==
    /\ light_directions = ParseDirections(<<"E", "W">>)
    /\ lighting_mode = "sun"
    /\ dimmer_level = 1000
    /\ manual_override = FALSE
    /\ lights = [i \in 1..2 |-> LightOff]
    /\ calls = <<>>
    /\ ev = [kind |-> "initialize", direction |-> 0, reads |-> NoReads,
          raised |-> FALSE, data |-> NoData]
    /\ pre = Snapshot
    /\ press_hist = <<>>
    /\ probe \in SunProbes
    /\ fault_count = 0
    /\ app = StartedApp

EvalSunBrightness ==
    /\ probe.fn = "input"
    /\ probe' = [probe EXCEPT
                    !.fn = "calculate_sun_brightness",
                    !.out = <<calculate_sun_brightness(probe.elevation),
                              calculate_sun_brightness(probe.other_elevation),
                              tester_calculate_sun_brightness(probe.elevation),
                              tester_calculate_sun_brightness(probe.other_elevation)>>]
    /\ UNCHANGED <<light_directions, lighting_mode, dimmer_level, manual_override,
                   lights, calls, ev, pre, press_hist, fault_count, app>>

EvalSunColorTemperature ==
    /\ probe.fn = "input"
    /\ probe' = [probe EXCEPT
                    !.fn = "calculate_sun_color_temperature",
                    !.out = <<calculate_sun_color_temperature(probe.elevation),
                              tester_calculate_sun_color_temperature(probe.elevation)>>]
    /\ UNCHANGED <<light_directions, lighting_mode, dimmer_level, manual_override,
                   lights, calls, ev, pre, press_hist, fault_count, app>>

\* update_sun_lighting(elevation, azimuth) at dimmer level probe.dimmer, the
\* sun due east.
EvalSunCycle ==
    /\ probe.fn = "input"
    /\ \E reads \in {SunReads(probe.elevation, direction_map["E"], NoSensor)} :
       \E cycle \in {update_lights_calls("sun", probe.dimmer, lights, reads)} :
           /\ dimmer_level' = probe.dimmer
           /\ calls' = cycle
           /\ lights' = ApplyCalls(lights, cycle)
           /\ ev' = [kind |-> "tick", direction |-> 0, reads |-> reads,
                  raised |-> FALSE, data |-> NoData]
           /\ pre' = [Snapshot EXCEPT !.dimmer_level = probe.dimmer]
           /\ probe' = [probe EXCEPT !.fn = "update_sun_lighting"]
    /\ UNCHANGED <<light_directions, lighting_mode, manual_override, press_hist,
                   fault_count, app>>

NextSun == EvalSunBrightness \/ EvalSunColorTemperature \/ EvalSunCycle

SpecSun == InitSun /\ [][NextSun]_vars

--------------------------------------------------------------------------
(* The alignment functions evaluated on their own: every pair of azimuths  *)
(* on the grid, and every pair of compass directions against every         *)
(* celestial azimuth.                                                      *)

\* Azimuths in [0, 360), in steps of 2.5 degrees.
Azimuths == 0..143

\* The sixteen compass points of direction_map.
CompassLabels ==
    {"N", "NNE", "NE", "ENE", "E", "ESE", "SE", "SSE", "S", "SSW", "SW", "WSW",
     "W", "WNW", "NW", "NNW"}

AlignmentProbes ==
    {[NoProbe EXCEPT !.fn = "azimuths", !.light_azimuth = a,
                     !.celestial_azimuth = b] : a \in Azimuths, b \in Azimuths}

\* Base brightnesses: the least and the greatest a sun cycle computes.
DirectionalProbes ==
    {[NoProbe EXCEPT !.fn = "fixtures", !.celestial_azimuth = b,
                     !.base_brightness = base] : b \in Azimuths, base \in {5, 255}}

InitAzimuth ==
    /\ \/ /\ light_directions = ParseDirections(<<"N", "S">>)
          /\ probe \in AlignmentProbes
       \/ /\ \E d1 \in CompassLabels, d2 \in CompassLabels :
                 light_directions = ParseDirections(<<d1, d2>>)
          /\ probe \in DirectionalProbes
    /\ lighting_mode = "sun"
    /\ dimmer_level = 1000
    /\ manual_override = FALSE
    /\ lights = [i \in 1..2 |-> LightOff]
    /\ calls = <<>>
    /\ ev = [kind |-> "initialize", direction |-> 0, reads |-> NoReads,
          raised |-> FALSE, data |-> NoData]
    /\ pre = Snapshot
    /\ press_hist = <<>>
    /\ fault_count = 0
    /\ app = StartedApp

\* calculate_azimuth_alignment with its arguments in both orders.
EvalAlignment ==
    /\ probe.fn = "azimuths"
    /\ probe' = [probe EXCEPT
                    !.fn = "calculate_azimuth_alignment",
                    !.out = <<calculate_azimuth_alignment(probe.light_azimuth,
                                                          probe.celestial_azimuth),
                              calculate_azimuth_alignment(probe.celestial_azimuth,
                                                          probe.light_azimuth)>>]
    /\ UNCHANGED <<light_directions, lighting_mode, dimmer_level, manual_override,
                   lights, calls, ev, pre, press_hist, fault_count, app>>

EvalDirectionalBrightness ==
    /\ probe.fn = "fixtures"
    /\ probe' = [probe EXCEPT
                    !.fn = "calculate_directional_brightness",
                    !.out = calculate_directional_brightness(
                                probe.base_brightness, probe.celestial_azimuth)]
    /\ UNCHANGED <<light_directions, lighting_mode, dimmer_level, manual_override,
                   lights, calls, ev, pre, press_hist, fault_count, app>>

NextAzimuth == EvalAlignment \/ EvalDirectionalBrightness

SpecAzimuth == InitAzimuth /\ [][NextAzimuth]_vars

--------------------------------------------------------------------------
(* The moon colour functions evaluated on their own, for every altitude and *)
(* every phase.                                                             *)

\* Largest altitude, in degrees either side of the horizon, considered.
MaxAltitude == 90

Altitudes == (-MaxAltitude)..MaxAltitude

\* Illuminated fraction of the moon, in percent.
Phases == 0..100

\* States of the three humidity sensors.
HumiditySamples ==
    { <<"None", "None", "None">>,
      <<"0", "None", "None">>,
      <<"unknown", "30", "None">>,
      <<"None", "None", "80">>,
      <<"100", "50", "None">>,
      <<"unavailable", "50", "None">> }

\* Every phase is compared with the next one up.
MoonProbes ==
    {[NoProbe EXCEPT !.fn = "input", !.altitude = a, !.phase = p,
                     !.other_phase = Min(100, p + 1), !.humidity = h] :
        a \in Altitudes, p \in Phases, h \in HumiditySamples}

InitMoon ==
    /\ light_directions = ParseDirections(<<"E", "W">>)
    /\ lighting_mode = "moon"
    /\ dimmer_level = 1000
    /\ manual_override = FALSE
    /\ lights = [i \in 1..2 |-> LightOff]
    /\ calls = <<>>
    /\ ev = [kind |-> "initialize", direction |-> 0, reads |-> NoReads,
          raised |-> FALSE, data |-> NoData]
    /\ pre = Snapshot
    /\ press_hist = <<>>
    /\ probe \in MoonProbes
    /\ fault_count = 0
    /\ app = StartedApp

EvalMoonColor ==
    /\ probe.fn = "input"
    /\ probe' = [probe EXCEPT
                    !.fn = "calculate_moon_color",
                    !.out = <<calculate_moon_color(probe.altitude, probe.phase),
                              calculate_moon_color(probe.altitude, probe.other_phase)>>]
    /\ UNCHANGED <<light_directions, lighting_mode, dimmer_level, manual_override,
                   lights, calls, ev, pre, press_hist, fault_count, app>>

EvalRealtimeMoonColor ==
    /\ probe.fn = "input"
    /\ probe' = [probe EXCEPT
                    !.fn = "get_realtime_moon_color",
                    !.out = <<get_realtime_moon_color(probe.altitude, probe.phase,
                                                      probe.humidity),
                              get_realtime_moon_color(probe.altitude,
                                                      probe.other_phase,
                                                      probe.humidity)>>]
    /\ UNCHANGED <<light_directions, lighting_mode, dimmer_level, manual_override,
                   lights, calls, ev, pre, press_hist, fault_count, app>>

NextMoon == EvalMoonColor \/ EvalRealtimeMoonColor

SpecMoon == InitMoon /\ [][NextMoon]_vars

--------------------------------------------------------------------------
(* Properties *)

\* The calls of the decision cycle of the last handler (those not issued by
\* flash_lights).
CycleCalls == SelectSeq(calls, LAMBDA c : c.site \notin {"flash_pulse", "flash_restore"})

CallSet(cs) == {cs[k] : k \in 1..Len(cs)}

\* C1: every press moves the mode one step along sun -> moon -> off -> sun,
\* and after three presses (whatever came between them) the mode is again
\* what it was before the first of the three.
C1_PressRing ==
    /\ ev.kind = "press" =>
          \/ pre.lighting_mode = "sun" /\ lighting_mode = "moon"
          \/ pre.lighting_mode = "moon" /\ lighting_mode = "off"
          \/ pre.lighting_mode = "off" /\ lighting_mode = "sun"
    /\ Len(press_hist) = 3 => lighting_mode = press_hist[1]

C1_Witness ==
    /\ Len(press_hist) = 3
    /\ press_hist = <<"moon", "off", "sun">>
    /\ ev.kind = "rotate"
    /\ lighting_mode = "moon"

\* C2: the mode is sun, moon or off, and the dimmer level is a multiple of
\* 0.05 between 0.1 and 1.0, in every reachable state.
C2_StateDomain ==
    /\ lighting_mode \in {"sun", "moon", "off"}
    /\ dimmer_level % 50 = 0
    /\ dimmer_level >= 100
    /\ dimmer_level <= 1000

C2_Witness ==
    /\ ev.kind = "rotate"
    /\ lighting_mode = "off"
    /\ dimmer_level = 100

\* C3: a clockwise rotation from m yields min(1.0, m + 0.05) and a
\* counter-clockwise rotation yields max(0.1, m - 0.05).
C3_RotationStep ==
    ev.kind = "rotate" =>
        /\ ev.direction > 0 =>
              dimmer_level = IF pre.dimmer_level + 50 > 1000 THEN 1000
                             ELSE pre.dimmer_level + 50
        /\ ev.direction < 0 =>
              dimmer_level = IF pre.dimmer_level - 50 < 100 THEN 100
                             ELSE pre.dimmer_level - 50

C3_Witness ==
    /\ ev.kind = "rotate"
    /\ ev.direction < 0
    /\ pre.dimmer_level = 100
    /\ dimmer_level = 100

\* C4 as stated: a press leaves the dimmer level unchanged.
C4_PressKeepsLevel ==
    ev.kind = "press" => dimmer_level = pre.dimmer_level

\* C4 amended: a press leaves the dimmer level unchanged when manual_override
\* is False; when manual_override is True it sets the level to 1.0; in both
\* cases manual_override is False afterwards.
C4_PressResetsLevel ==
    ev.kind = "press" =>
        /\ ~pre.manual_override => dimmer_level = pre.dimmer_level
        /\ pre.manual_override => dimmer_level = 1000
        /\ ~manual_override

C4_Witness ==
    /\ ev.kind = "press"
    /\ pre.manual_override
    /\ pre.dimmer_level = 500
    /\ dimmer_level = 1000

\* C5: a rotation and a tick leave the mode unchanged, and a tick also leaves
\* the dimmer level (and manual_override) unchanged.
C5_ModeOnlyByPress ==
    /\ ev.kind \in {"rotate", "tick"} => lighting_mode = pre.lighting_mode
    /\ ev.kind = "tick" =>
          /\ dimmer_level = pre.dimmer_level
          /\ manual_override = pre.manual_override

C5_Witness ==
    /\ ev.kind = "tick"
    /\ pre.lighting_mode = "moon"
    /\ pre.dimmer_level = 300
    /\ calls # <<>>

\* A handler has run a decision cycle in mode `mode`.
CycleRanIn(mode) ==
    /\ ev.kind \in {"tick", "rotate", "press"}
    /\ lighting_mode = mode

\* The entities a cycle's calls switch on, and those they switch off.
SwitchedOn == {c.entity_id : c \in {d \in CallSet(CycleCalls) : d.service = "turn_on"}}
SwitchedOff == {c.entity_id : c \in {d \in CallSet(CycleCalls) : d.service = "turn_off"}}

\* Alignment of entity i with the azimuth the last cycle read.
AlignmentOf(i) == calculate_azimuth_alignment(light_directions[i], ev.reads.azimuth)

\* C6 as stated: a cycle in off mode reads no sun or moon position, issues no
\* turn-on, and issues a turn-off to every managed entity.
C6_OffCommandsEveryFixture ==
    CycleRanIn("off") =>
        /\ ev.reads = NoReads
        /\ SwitchedOn = {}
        /\ SwitchedOff = Entities

\* C6 amended: a cycle in off mode reads no sun or moon position, issues no
\* turn-on, and issues a turn-off to exactly the managed entities whose state
\* is on (none to an entity already off); afterwards every managed entity is
\* off.  A rotation in off mode issues no turn-on at all.
C6_OffCommandsLitFixtures ==
    CycleRanIn("off") =>
        /\ ev.reads = NoReads
        /\ \A c \in CallSet(CycleCalls) : c.site = "update_lights"
        /\ SwitchedOn = {}
        /\ SwitchedOff = {i \in Entities : pre.lights[i].state = "on"}
        /\ Len(CycleCalls) = Cardinality(SwitchedOff)
        /\ \A i \in Entities : lights[i].state = "off"
        /\ ev.kind = "rotate" => \A c \in CallSet(calls) : c.service = "turn_off"

C6_Witness ==
    /\ CycleRanIn("off")
    /\ ev.kind = "rotate"
    /\ Len(light_directions) >= 2
    /\ pre.lights[1].state = "on"
    /\ pre.lights[2].state = "off"
    /\ Len(calls) = 1

\* The brightness update_sun_lighting sends to entity i for the values the
\* last cycle read, at dimmer level `level`.
SunBrightnessAt(i, level) ==
    IntBrightness(SunBaseBrightness(ev.reads.elevation, level) * AlignmentOf(i))

\* C7 as stated: a rotation in off mode updates the dimmer level, and the
\* press that leaves off mode computes its targets with that level.
C7_OffRotationLatent ==
    /\ (ev.kind = "rotate" /\ pre.lighting_mode = "off") =>
          dimmer_level = RotatedLevel(pre.dimmer_level, ev.direction)
    /\ (ev.kind = "press" /\ pre.lighting_mode = "off") =>
          /\ dimmer_level = pre.dimmer_level
          /\ \A c \in CallSet(CycleCalls) :
                c.service = "turn_on" =>
                    c.brightness = SunBrightnessAt(c.entity_id, pre.dimmer_level)

\* C7 amended: a rotation in off mode updates the dimmer level (by one step,
\* clamped) and sets manual_override, but the level does not survive the mode
\* switch: the press that leaves off mode sets the level to 1.0 and computes
\* its targets with 1.0.
C7_OffRotationReset ==
    /\ (ev.kind = "rotate" /\ pre.lighting_mode = "off") =>
          /\ ev.direction > 0 =>
                dimmer_level = IF pre.dimmer_level = 1000 THEN 1000
                               ELSE pre.dimmer_level + 50
          /\ ev.direction < 0 =>
                dimmer_level = IF pre.dimmer_level = 100 THEN 100
                               ELSE pre.dimmer_level - 50
          /\ manual_override
    /\ (ev.kind = "press" /\ pre.lighting_mode = "off") =>
          /\ dimmer_level = 1000
          /\ \A c \in CallSet(CycleCalls) :
                c.service = "turn_on" =>
                    c.brightness = SunBrightnessAt(c.entity_id, 1000)

C7_Witness ==
    /\ ev.kind = "press"
    /\ pre.lighting_mode = "off"
    /\ pre.manual_override
    /\ pre.dimmer_level = 500
    /\ \E c \in CallSet(CycleCalls) : c.service = "turn_on" /\ c.brightness = 153

\* C8: a press in off mode sets the mode to sun and, in the same handler,
\* issues a turn-on to every managed entity whose alignment with the sun
\* azimuth read is greater than 0.
C8_PressFromOffLights ==
    (ev.kind = "press" /\ pre.lighting_mode = "off") =>
        /\ lighting_mode = "sun"
        /\ ev.reads.body = "sun"
        /\ \A i \in Entities :
              AlignmentOf(i) > 0 =>
                  /\ \E c \in CallSet(CycleCalls) :
                        /\ c.service = "turn_on"
                        /\ c.entity_id = i
                        /\ c.site = "update_sun_lighting"
                  /\ lights[i].state = "on"

C8_Witness ==
    /\ ev.kind = "press"
    /\ pre.lighting_mode = "off"
    /\ \E i \in Entities : AlignmentOf(i) = 0 /\ lights[i].state = "off"
    /\ \E i \in Entities : AlignmentOf(i) > 0 /\ lights[i].state = "on"

\* C9: a cycle in moon mode switches on at most 2 entities, only entities
\* aligned by more than 0.5, and none when no entity is; with entities at 0
\* and 180 degrees and the moon at azimuth 10 degrees only the first is on.
C9_MoonAtMostTwo ==
    CycleRanIn("moon") =>
        /\ Cardinality(SwitchedOn) <= 2
        /\ \A i \in SwitchedOn : AlignmentOf(i) > 500000
        /\ (\A i \in Entities : AlignmentOf(i) <= 500000) => SwitchedOn = {}
        /\ (light_directions = <<0, 72>> /\ ev.reads.azimuth = 4) => SwitchedOn = {1}
        /\ \A i \in Entities : (lights[i].state = "on") <=> (i \in SwitchedOn)

C9_Witness ==
    /\ CycleRanIn("moon")
    /\ Cardinality({i \in Entities : AlignmentOf(i) > 500000}) >= 3
    /\ Cardinality(SwitchedOn) = 2

\* C10 as stated: in a moon cycle every entity kept is switched on with
\* brightness round(255 * 0.6 * dimmer_level) and one shared rgb_color, every
\* other managed entity is switched off, one call per entity.
C10_MoonRoundedBrightness ==
    CycleRanIn("moon") =>
        /\ \A c \in CallSet(CycleCalls) :
              c.service = "turn_on" =>
                  /\ 2 * 1000 * c.brightness >= 2 * 153 * dimmer_level - 1000
                  /\ 2 * 1000 * c.brightness <= 2 * 153 * dimmer_level + 1000
        /\ \A c, d \in CallSet(CycleCalls) :
              (c.service = "turn_on" /\ d.service = "turn_on") =>
                  c.rgb_color = d.rgb_color
        /\ Len(CycleCalls) = Len(light_directions)
        /\ SwitchedOn \cup SwitchedOff = Entities

\* C10 amended: as stated, with the brightness int(255 * 0.6 * dimmer_level),
\* truncated instead of rounded.
C10_MoonTruncatedBrightness ==
    CycleRanIn("moon") =>
        /\ \A c \in CallSet(CycleCalls) :
              c.service = "turn_on" =>
                  /\ 1000 * c.brightness <= 153 * dimmer_level
                  /\ 1000 * (c.brightness + 1) > 153 * dimmer_level
                  /\ Len(c.rgb_color) = 3
                  /\ c.kelvin = 0
        /\ \A c, d \in CallSet(CycleCalls) :
              (c.service = "turn_on" /\ d.service = "turn_on") =>
                  c.rgb_color = d.rgb_color /\ c.brightness = d.brightness
        /\ Len(CycleCalls) = Len(light_directions)
        /\ SwitchedOn \cup SwitchedOff = Entities
        /\ SwitchedOn \cap SwitchedOff = {}

C10_Witness ==
    /\ CycleRanIn("moon")
    /\ dimmer_level = 900
    /\ Cardinality(SwitchedOn) = 2
    /\ SwitchedOff # {}
    /\ \A c \in CallSet(CycleCalls) : c.service = "turn_on" => c.brightness = 137

\* C11: a moon cycle leaves no entity off whose alignment is strictly greater
\* than that of an entity it switches on, and of two entities of equal
\* alignment the one configured later is never switched on while the one
\* configured earlier is left off.
C11_MoonTieByConfigOrder ==
    CycleRanIn("moon") =>
        /\ \A i \in SwitchedOn : \A j \in Entities \ SwitchedOn :
              AlignmentOf(j) <= AlignmentOf(i)
        /\ \A i, j \in Entities :
              (i < j /\ AlignmentOf(i) = AlignmentOf(j) /\ j \in SwitchedOn) =>
                  i \in SwitchedOn

C11_Witness ==
    /\ CycleRanIn("moon")
    /\ Len(light_directions) >= 3
    /\ AlignmentOf(2) = AlignmentOf(3)
    /\ AlignmentOf(2) > 500000
    /\ light_directions[2] # light_directions[3]
    /\ 2 \in SwitchedOn
    /\ 3 \notin SwitchedOn
    /\ 1 \in SwitchedOn

\* Angular distance, the short way round, between entity i and the azimuth
\* the last cycle read (72 = 180 degrees).
DistanceOf(i) ==
    LET d == Abs(light_directions[i] - ev.reads.azimuth)
    IN  IF d > 72 THEN 144 - d ELSE d

\* C12: a sun cycle switches on every managed entity whose base x alignment
\* is greater than 0, however many there are, each with the cycle's one
\* kelvin and with the integer part of base x alignment as brightness; every
\* other entity is off afterwards; the base is positive, so the entities not
\* switched on are exactly those 180 degrees from the sun's azimuth.
C12_SunNoCap ==
    CycleRanIn("sun") =>
        LET base == SunBaseBrightness(ev.reads.elevation, dimmer_level)
        IN  /\ base > 0
            /\ \A i \in Entities :
                  /\ (i \in SwitchedOn) <=> (base * AlignmentOf(i) > 0)
                  /\ (i \notin SwitchedOn) => lights[i].state = "off"
                  /\ (i \notin SwitchedOn) <=> (DistanceOf(i) = 72)
            /\ \A c \in CallSet(CycleCalls) :
                  c.service = "turn_on" =>
                      /\ c.brightness * 1000000 <= base * AlignmentOf(c.entity_id)
                      /\ (c.brightness + 1) * 1000000 > base * AlignmentOf(c.entity_id)
                      /\ c.kelvin = SunKelvin(ev.reads.elevation, ev.reads.weather)
                      /\ c.kelvin >= 2000
                      /\ c.rgb_color = <<>>
            /\ \A c \in CallSet(CycleCalls) :
                  c.service = "turn_off" => pre.lights[c.entity_id].state = "on"

C12_Witness ==
    /\ CycleRanIn("sun")
    /\ Cardinality(SwitchedOn) >= 3
    /\ \E i \in SwitchedOn : AlignmentOf(i) < 1000000
    /\ \E i \in Entities : lights[i].brightness < 153 /\ lights[i].brightness > 0

\* Angular distance between two azimuths, the short way round (72 = 180
\* degrees).
AngularDistance(a, b) == Min((a - b) % 144, (b - a) % 144)

\* C14: calculate_azimuth_alignment gives the same value with its arguments
\* exchanged, a value between 0 and 1, 1.0 for equal azimuths and 0.0 for
\* azimuths 180 degrees apart, for all azimuths in [0, 360).
C14_AlignmentSymmetric ==
    probe.fn = "calculate_azimuth_alignment" =>
        /\ probe.out[1] = probe.out[2]
        /\ probe.out[1] >= 0
        /\ probe.out[1] <= 1000000
        /\ probe.light_azimuth = probe.celestial_azimuth => probe.out[1] = 1000000
        /\ (probe.light_azimuth - probe.celestial_azimuth) % 144 = 72 =>
              probe.out[1] = 0

C14_Witness ==
    /\ probe.fn = "calculate_azimuth_alignment"
    /\ probe.light_azimuth = 140
    /\ probe.celestial_azimuth = 4
    /\ probe.out = <<969846, 969846>>

\* The brightness the sun cycle sent to the fixture facing the sun, and the
\* exact value of pct * 255 / 100 * dimmer_level as a fraction over 180000.
AlignedBrightness == calls[1].brightness
ExactBaseTimes180000 ==
    calculate_sun_brightness(probe.elevation) * 255 * (probe.dimmer \div 50)

\* C13 as stated: the base brightness of a sun cycle, which the fixture
\* facing the sun receives, is round(pct * 255 / 100 * dimmer_level).
C13_SunBaseRounded ==
    probe.fn = "update_sun_lighting" =>
        /\ calls[1].service = "turn_on"
        /\ calls[1].entity_id = 1
        /\ 2 * Abs(AlignedBrightness * 180000 - ExactBaseTimes180000) <= 180000

\* C13 amended: the base brightness of a sun cycle, which the fixture facing
\* the sun receives, is int(int(pct * 255 / 100) * dimmer_level): truncated
\* twice, never above the exact product, equal to the twice-truncated value
\* whenever neither product is a whole number and otherwise that value or
\* one less; it is 153 at elevation 45 and dimmer level 1.0.
C13_SunBaseTruncated ==
    probe.fn = "update_sun_lighting" =>
        LET pct255 == (calculate_sun_brightness(probe.elevation) * 255) \div 9000
            whole255 == (calculate_sun_brightness(probe.elevation) * 255) % 9000 = 0
            twentieths == probe.dimmer \div 50
            truncated == (pct255 * twentieths) \div 20
            whole == (pct255 * twentieths) % 20 = 0
        IN  /\ calls[1].service = "turn_on"
            /\ calls[1].entity_id = 1
            /\ AlignedBrightness * 180000 <= ExactBaseTimes180000
            /\ AlignedBrightness <= truncated
            /\ AlignedBrightness >= truncated - 1
            /\ (~whole255 /\ ~whole) => AlignedBrightness = truncated
            /\ (probe.elevation = 45 /\ probe.dimmer = 1000) => AlignedBrightness = 153

C13_Witness ==
    /\ probe.fn = "update_sun_lighting"
    /\ probe.elevation = 45
    /\ probe.dimmer = 900
    /\ AlignedBrightness = 137
    /\ lights[1].state = "on"
    /\ lights[2].state = "off"

\* C15: of two fixtures, the one at the smaller angular distance from the
\* celestial azimuth is given a brightness base x alignment at least as
\* great as the other's, before and after the truncation to a whole number.
C15_NearerNeverDimmer ==
    probe.fn = "calculate_directional_brightness" =>
        \A i, j \in Entities :
            AngularDistance(light_directions[i], probe.celestial_azimuth)
                <= AngularDistance(light_directions[j], probe.celestial_azimuth)
            => /\ probe.out[i] >= probe.out[j]
               /\ IntBrightness(probe.out[i]) >= IntBrightness(probe.out[j])

C15_Witness ==
    /\ probe.fn = "calculate_directional_brightness"
    /\ light_directions = <<135, 36>>
    /\ probe.celestial_azimuth = 4
    /\ probe.base_brightness = 255
    /\ probe.out[1] > probe.out[2]
    /\ probe.out[2] > 0

\* C16: calculate_sun_brightness (the app's and the test harness's) returns
\* 20.0 for every elevation at or below 0, a value between 20 and 100 for
\* every elevation at all, and never less for a higher elevation.
C16_SunBrightnessCurve ==
    probe.fn = "calculate_sun_brightness" =>
        \A k \in {1, 3} :
            /\ probe.elevation <= 0 => probe.out[k] = 1800
            /\ probe.out[k] >= 1800
            /\ probe.out[k] <= 9000
            /\ probe.elevation <= probe.other_elevation =>
                  probe.out[k] <= probe.out[k + 1]
            /\ probe.elevation >= probe.other_elevation =>
                  probe.out[k] >= probe.out[k + 1]

C16_Witness ==
    /\ probe.fn = "calculate_sun_brightness"
    /\ probe.elevation = 45
    /\ probe.other_elevation = 200
    /\ probe.out = <<5400, 9000, 5400, 9000>>

\* C17: calculate_sun_color_temperature returns a whole number of kelvin
\* between 2000 and 6500 for every elevation, in the app's piecewise form and
\* in the test harness's linear form.
C17_KelvinRange ==
    probe.fn = "calculate_sun_color_temperature" =>
        /\ probe.out[1] \in 2000..6500
        /\ probe.out[2] \in 2000..6500

C17_Witness ==
    /\ probe.fn = "calculate_sun_color_temperature"
    /\ probe.elevation = 200
    /\ probe.out = <<6500, 6500>>

\* A colour and the colour at the next phase up, against the base colour:
\* every channel between 0 and 255, at least 1 and at least 0.3 x base at new
\* moon, and not less at the higher phase.
MoonColorHolds(rgb, other_rgb, base) ==
    \A c \in 1..3 :
        /\ rgb[c] >= 0
        /\ rgb[c] <= 255
        /\ probe.phase = 0 => (rgb[c] > 0 /\ 10 * rgb[c] >= 3 * base[c])
        /\ probe.phase <= probe.other_phase => rgb[c] <= other_rgb[c]

ReadFailed == ev.kind \in {"tick", "rotate", "press"} /\ ~ev.reads.ok

\* After a cycle whose position read failed: no exception left the handler,
\* the cycle issued no call, and every light is in the state and at the
\* brightness it had; a tick changed nothing at all.
ReadFailureSkipped ==
    ReadFailed =>
        /\ ~ev.raised
        /\ CycleCalls = <<>>
        /\ \A i \in Entities :
              /\ lights[i].state = pre.lights[i].state
              /\ lights[i].brightness = pre.lights[i].brightness
        /\ ev.kind \in {"tick", "rotate"} => (calls = <<>> /\ lights = pre.lights)
        /\ ev.kind = "tick" =>
              /\ lighting_mode = pre.lighting_mode
              /\ dimmer_level = pre.dimmer_level
              /\ manual_override = pre.manual_override

\* The tick that follows a failed cycle issues the calls update_lights
\* computes from the mode, the dimmer level, the light states and what it
\* reads itself.
FreshCycleAfterFailure ==
    (ReadFailed /\ ev'.kind = "tick") =>
        calls' = update_lights_calls(lighting_mode, dimmer_level, lights, ev'.reads)

\* C19: when the position read of a decision cycle fails, update_lights does
\* not raise, the cycle issues no call to any fixture and leaves the lights
\* as they were, and the next tick runs a cycle of its own.
C19_ReadFailureSkipsCycle ==
    []ReadFailureSkipped /\ [][FreshCycleAfterFailure]_vars

C19_Witness ==
    /\ ReadFailed
    /\ ev.kind = "tick"
    /\ lighting_mode = "sun"
    /\ calls = <<>>
    /\ \E i \in Entities : lights[i].state = "on" /\ lights[i].brightness = 153
    /\ fault_count = 1

\* The calls the last cycle would have issued had no call raised.
CallsIfNoneRaised ==
    update_lights_calls(lighting_mode, dimmer_level, pre.lights,
                        [ev.reads EXCEPT !.sink_fails = 0])

\* C20 as stated: when the call for one entity raises during a cycle, every
\* other managed entity still receives the command the cycle has for it.
C20_OthersStillCommanded ==
    (ev.kind \in {"tick", "rotate"} /\ ev.reads.sink_fails # 0) =>
        \A c \in CallSet(CallsIfNoneRaised) :
            c.entity_id # ev.reads.sink_fails => c \in CallSet(calls)

\* initialize found no usable fixture, or no latitude or no longitude.
NotStartable ==
    \/ light_directions = <<>>
    \/ app.latitude = <<>>
    \/ app.longitude = <<>>

\* C21: when the configuration names no fixture with a known direction, or
\* the location cannot be obtained, the application refuses to start: the
\* periodic cycle is not scheduled, no controller event is listened for, no
\* handler ever runs and no command is ever issued to a light.
C21_RefusesToStart ==
    NotStartable =>
        /\ ~app.run_every
        /\ ~app.listen_event
        /\ ev.kind = "initialize"
        /\ calls = <<>>
        /\ lights = pre.lights
        /\ lighting_mode = "sun"

\* Only unknown labels are configured, with a location and a controller.
C21_Witness ==
    /\ light_directions = <<>>
    /\ Truthy(app.latitude)
    /\ Truthy(app.longitude)
    /\ app.aurora_device_id # <<>>
    /\ ~app.run_every
    /\ ev.kind = "initialize"

\* Positions in `calls` of the calls issued at `site`.
CallsAt(site) == {k \in 1..Len(calls) : calls[k].site = site}

\* The fixtures that were on when the handler began.
LitBefore == {i \in DOMAIN pre.lights : pre.lights[i].state = "on"}

\* C23: on every press the pulse comes first, in the fixed colour of the mode
\* being entered (warm for sun, blue for moon, red for off) at full
\* brightness; every pulsed fixture then receives one restore carrying the
\* brightness and colour it had before the pulse; the targets of the new mode
\* are issued only after the last restore.
C23_PulseRestoreTargets ==
    ev.kind = "press" =>
        /\ \A p \in CallsAt("flash_pulse"), r \in CallsAt("flash_restore") : p < r
        /\ \A r \in CallsAt("flash_restore"),
              t \in (1..Len(calls)) \ (CallsAt("flash_pulse") \cup CallsAt("flash_restore")) :
               r < t
        /\ \A p \in CallsAt("flash_pulse") :
               /\ calls[p].service = "turn_on"
               /\ calls[p].brightness = 255
               /\ calls[p].rgb_color =
                      (CASE lighting_mode = "sun" -> <<255, 200, 100>>
                         [] lighting_mode = "moon" -> <<100, 100, 255>>
                         [] lighting_mode = "off" -> <<255, 0, 0>>)
               /\ Cardinality({r \in CallsAt("flash_restore") :
                      calls[r].entity_id = calls[p].entity_id}) = 1
        /\ \A r \in CallsAt("flash_restore") :
               /\ calls[r].service = "turn_on"
               /\ calls[r].brightness = pre.lights[calls[r].entity_id].brightness
               /\ calls[r].rgb_color = RgbAttribute(pre.lights[calls[r].entity_id])
               /\ \E p \in CallsAt("flash_pulse") :
                      calls[p].entity_id = calls[r].entity_id
        /\ \A t \in 1..Len(CycleCalls) :
               CycleCalls[t].site =
                   (CASE lighting_mode = "sun" -> "update_sun_lighting"
                      [] lighting_mode = "moon" -> "update_moon_lighting"
                      [] lighting_mode = "off" -> "update_lights")

\* A press into moon mode with a fixture lit by the sun cycle: blue pulse,
\* restore of the sun brightness, then the moon targets.
C23_Witness ==
    /\ ev.kind = "press"
    /\ lighting_mode = "moon"
    /\ \E i \in LitBefore : pre.lights[i].kelvin > 0 /\ pre.lights[i].brightness < 255
    /\ CallsAt("flash_pulse") # {}
    /\ CallsAt("flash_restore") # {}
    /\ CallsAt("update_moon_lighting") # {}

\* C24: a minimum brightness is kept while the mode is sun or moon: the
\* dimmer level never falls below 0.1 whatever rotations were made, the base
\* brightness of every sun or moon cycle is greater than 0, a fixture facing
\* the sun exactly receives that base, and every fixture the moon cycle
\* lights is lit with a brightness greater than 0.
C24_MinimumBrightness ==
    /\ dimmer_level >= 100
    /\ CycleRanIn("sun") =>
           /\ SunBaseBrightness(ev.reads.elevation, dimmer_level) > 0
           /\ \A i \in Entities :
                  AlignmentOf(i) = 1000000 =>
                      \E c \in CallSet(CycleCalls) :
                          /\ c.entity_id = i
                          /\ c.service = "turn_on"
                          /\ c.brightness =
                                 SunBaseBrightness(ev.reads.elevation, dimmer_level)
    /\ CycleRanIn("moon") =>
           /\ MoonBaseBrightness(dimmer_level) > 0
           /\ \A c \in CallSet(CycleCalls) :
                  c.service = "turn_on" => c.brightness > 0

\* The dimmest sun cycle: the sun below the horizon, and one more turn down
\* with the dimmer already at its floor.
C24_Witness ==
    /\ dimmer_level = 100
    /\ ev.kind = "rotate"
    /\ ev.direction = -1
    /\ pre.dimmer_level = 100
    /\ lighting_mode = "sun"
    /\ ev.reads.elevation = -5
    /\ SunBaseBrightness(ev.reads.elevation, dimmer_level) = 5
    /\ SwitchedOn # {}

\* C25 as stated: with no cloud-coverage sensor and no weather entity, the
\* kelvin a sun cycle sends equals calculate_sun_color_temperature(elevation).
C25_CurveWithoutSensors ==
    (probe.fn = "update_sun_lighting" /\ ev.reads.weather = NoSensor) =>
        \A c \in CallSet(CycleCalls) :
            c.service = "turn_on" =>
                c.kelvin = calculate_sun_color_temperature(ev.reads.elevation)

EventDropped ==
    /\ ev.kind = "ignored"
    /\ lighting_mode = pre.lighting_mode
    /\ dimmer_level = pre.dimmer_level
    /\ manual_override = pre.manual_override
    /\ lights = pre.lights
    /\ calls = <<>>

\* The mode one step after `mode` in the ring sun, moon, off.
ModeAfter(mode) ==
    CASE mode = "sun" -> "moon" [] mode = "moon" -> "off" [] mode = "off" -> "sun"

\* What each raw event did, seen in the state after its handler.
RawEventEffect ==
    /\ ev.data.type \in {<<"initial_press">>, <<"repeat">>} => EventDropped
    /\ (ev.data # NoData /\ ev.data.type \notin {<<"short_release">>, <<"start">>}
            /\ ev.data.command # <<"on">>) => EventDropped
    /\ (ev.data.type = <<"start">>
            /\ ev.data.subtype \notin {<<"clock_wise">>, <<"counter_clock_wise">>})
           => EventDropped
    /\ ev.data.type = <<"short_release">> =>
           /\ ev.kind = "press"
           /\ lighting_mode = ModeAfter(pre.lighting_mode)
    /\ (ev.data.type = <<"start">> /\ ev.data.subtype = <<"clock_wise">>) =>
           /\ ev.kind = "rotate"
           /\ lighting_mode = pre.lighting_mode
           /\ dimmer_level = Min(1000, pre.dimmer_level + 50)
    /\ (ev.data.type = <<"start">> /\ ev.data.subtype = <<"counter_clock_wise">>) =>
           /\ ev.kind = "rotate"
           /\ lighting_mode = pre.lighting_mode
           /\ dimmer_level = Max(100, pre.dimmer_level - 50)

\* A short_release that follows an initial_press directly: the pair moves the
\* mode one step from where it was before the initial_press.
PressPairOneStep ==
    (ev.data.type = <<"initial_press">> /\ ev'.data.type = <<"short_release">>) =>
        /\ lighting_mode = pre.lighting_mode
        /\ lighting_mode' = ModeAfter(pre.lighting_mode)

\* C27: a raw controller event maps to one normalized event or to none.  An
\* initial_press changes nothing and the short_release after it advances the
\* mode one step; a rotation start with subtype clock_wise or
\* counter_clock_wise turns the dimmer exactly one step up or down whatever
\* its steps value; a repeat, a start without a rotation subtype and an
\* unrecognized event leave mode, dimmer and lights unchanged and issue no
\* call.
C27_RawEventMapping == []RawEventEffect /\ [][PressPairOneStep]_vars

\* A clockwise start carrying steps = 200 raised the dimmer by one step.
C27_Witness ==
    /\ ev.data.type = <<"start">>
    /\ ev.data.subtype = <<"clock_wise">>
    /\ ev.data.steps = <<200>>
    /\ pre.dimmer_level = 500
    /\ dimmer_level = 550
    /\ press_hist # <<>>

\* C28: whenever manual_override is False the dimmer level is 1.0; so after
\* every press the dimmer level is 1.0, whatever rotations came before, and
\* the targets of the mode entered are computed at the full level: in sun
\* mode each fixture lit receives the brightness of level 1.0, in moon mode
\* int(255 * 0.6) = 153.
C28_NoOverrideFullLevel ==
    /\ ~manual_override => dimmer_level = 1000
    /\ ev.kind = "press" =>
           /\ ~manual_override
           /\ dimmer_level = 1000
           /\ \A c \in CallSet(CycleCalls) :
                  c.service = "turn_on" =>
                      c.brightness =
                          IF lighting_mode = "sun"
                          THEN SunBrightnessAt(c.entity_id, 1000)
                          ELSE 153

\* A press after the dimmer was turned down: the moon targets are at 153.
C28_Witness ==
    /\ ev.kind = "press"
    /\ pre.manual_override
    /\ pre.dimmer_level = 100
    /\ lighting_mode = "moon"
    /\ \E c \in CallSet(CycleCalls) : c.service = "turn_on" /\ c.brightness = 153

\* C29 as stated: every turn-on issued by a sun or moon cycle carries a
\* brightness from 1 to 255, in sun mode not above the cycle's base.
C29_TurnOnBrightnessPositive ==
    (CycleRanIn("sun") \/ CycleRanIn("moon")) =>
        \A c \in CallSet(CycleCalls) :
            c.service = "turn_on" =>
                /\ c.brightness \in 1..255
                /\ lighting_mode = "sun" =>
                       c.brightness <= SunBaseBrightness(ev.reads.elevation,
                                                         dimmer_level)

\* C30: the pulse of a mode change never turns on a fixture that was off.
\* The pulse and restore calls of a press go to exactly the fixtures whose
\* state was on when the press was handled, one pulse and one restore each; a
\* fixture that was off receives neither, and outside a press no pulse or
\* restore is issued at all.
C30_PulseOnlyLitFixtures ==
    /\ ev.kind = "press" =>
           /\ {calls[k].entity_id : k \in CallsAt("flash_pulse")} = LitBefore
           /\ {calls[k].entity_id : k \in CallsAt("flash_restore")} = LitBefore
           /\ Cardinality(CallsAt("flash_pulse")) = Cardinality(LitBefore)
           /\ Cardinality(CallsAt("flash_restore")) = Cardinality(LitBefore)
    /\ ev.kind # "press" =>
           CallsAt("flash_pulse") \cup CallsAt("flash_restore") = {}

\* A press with one fixture on and another off: one pulse, and the fixture
\* that was off is first addressed by the cycle of the new mode.
C30_Witness ==
    /\ ev.kind = "press"
    /\ Cardinality(CallsAt("flash_pulse")) = 1
    /\ \E i \in Entities :
           /\ pre.lights[i].state = "off"
           /\ \A k \in CallsAt("flash_pulse") : calls[k].entity_id # i
           /\ i \in SwitchedOn

====
